---- MODULE Spec2Model ----
(***************************************************************************)
(* Stove safety monitor (src/stove_monitor_no_sms.py): the telemetry line  *)
(* parser, the Celsius -> Fahrenheit conversion, the severity branches of  *)
(* main(), the LED/buzzer helpers, the alert cooldown of                   *)
(* send_stove_sms_alert() and the try/except/finally of main().            *)
(*                                                                         *)
(* Text is a sequence of one-character strings.  A Python float is a       *)
(* record [tag, num, den]: tag "fin" is the rational num/den (den a power  *)
(* of ten times a power of five, den > 0), tags "inf", "-inf" and "nan"    *)
(* are the IEEE specials, tag "ValueError" is float() refusing the text.   *)
(* Finite arithmetic is exact: the rounding of IEEE doubles is not         *)
(* modelled.  Time is counted in ticks of one poll interval (0.1 s); the    *)
(* clock never runs backwards, and it may start below ALERT_COOLDOWN (a    *)
(* board without a real-time clock boots at the epoch).  One               *)
(* KeyboardInterrupt is delivered, while the loop runs.                    *)
(***************************************************************************)
EXTENDS Integers, Sequences, FiniteSets, TLC

VARIABLES
    pc,               \* position of main(): "main", "read", "parse", "classify",
                      \* "alert", "send", "sleep", "cleanup", "done"
    line,             \* local line of main(), after decode().strip()
    light, temp_c,    \* locals of main(), optional values
    severity,         \* branch taken for the latest complete reading
    led, duty,        \* LED pins and buzzer PWM duty cycle
    clock,            \* time.time(), in ticks
    last_alert_time,  \* module global, in ticks
    attempts,         \* history: the alert attempts, [t, result] each
    cycles,           \* history: number of readline() calls made
    exitReason,       \* "none", "interrupt" (KeyboardInterrupt), "crash"
    neutralCmds,      \* history: all-off actuator commands issued by cleanup
    serClosed,        \* history: number of ser.close() calls
    readings,         \* history: complete readings returned by parse_line
    sevCmds           \* history: set_*_state() calls made by the loop body

vars == <<pc, line, light, temp_c, severity, led, duty, clock,
          last_alert_time, attempts, cycles, exitReason,
          neutralCmds, serClosed, readings, sevCmds>>

(***************************************************************************)
(* Program constants                                                       *)
(***************************************************************************)
LIGHT_DARK_THRESHOLD == 500
TEMP_WARN_THRESHOLD == 68
TEMP_DANGER_THRESHOLD == 72
ALERT_COOLDOWN == 60 * 5
\* time.sleep(0.1): one tick of the model's clock; ticks per second.
TicksPerSecond == 10
SleepTicks == 1
CooldownTicks == ALERT_COOLDOWN * TicksPerSecond
\* buzzer_pwm.ChangeDutyCycle(50) / ChangeDutyCycle(0)
DUTY_ON == 50
DUTY_OFF == 0

(***************************************************************************)
(* Bounds of the model                                                     *)
(***************************************************************************)
\* readline() calls explored in one run of the monitor.
MaxCycles == 4
\* Tokens per generated line, for the parser and the classifier.
MaxTokens == 3

(***************************************************************************)
(* Text: str.strip, str.split, str.startswith, slicing                     *)
(***************************************************************************)
Whitespace == {" ", "\t", "\r", "\n"}
Digits == {"0", "1", "2", "3", "4", "5", "6", "7", "8", "9"}

DigitVal(ch) ==
    CASE ch = "0" -> 0 [] ch = "1" -> 1 [] ch = "2" -> 2 [] ch = "3" -> 3
      [] ch = "4" -> 4 [] ch = "5" -> 5 [] ch = "6" -> 6 [] ch = "7" -> 7
      [] ch = "8" -> 8 [] ch = "9" -> 9

RECURSIVE LStrip(_)
LStrip(s) ==
    IF s # <<>> /\ Head(s) \in Whitespace THEN LStrip(Tail(s)) ELSE s

RECURSIVE RStrip(_)
RStrip(s) ==
    IF s # <<>> /\ s[Len(s)] \in Whitespace
    THEN RStrip(SubSeq(s, 1, Len(s) - 1))
    ELSE s

strip(s) == RStrip(LStrip(s))

RECURSIVE SplitFrom(_, _, _)
SplitFrom(s, cur, acc) ==
    IF s = <<>>
    THEN IF cur = <<>> THEN acc ELSE Append(acc, cur)
    ELSE IF Head(s) \in Whitespace
         THEN SplitFrom(Tail(s), <<>>,
                        IF cur = <<>> THEN acc ELSE Append(acc, cur))
         ELSE SplitFrom(Tail(s), Append(cur, Head(s)), acc)

\* line.split(): the maximal runs of non-whitespace characters, in order.
split(s) == SplitFrom(s, <<>>, <<>>)

startswith(p, prefix) ==
    /\ Len(p) >= Len(prefix)
    /\ SubSeq(p, 1, Len(prefix)) = prefix

\* p[2:]
From2(p) == SubSeq(p, 3, Len(p))

(***************************************************************************)
(* Python float(text) and int(float) on the modelled alphabet: an optional *)
(* sign, then "inf", "infinity", "nan", or decimal digits with at most one *)
(* point and at least one digit.  (Exponents, underscores and upper case   *)
(* are outside the alphabet of the modelled lines.)                        *)
(***************************************************************************)
Float(tag, num, den) == [tag |-> tag, num |-> num, den |-> den]
ValueErr == Float("ValueError", 0, 1)

RECURSIVE Pow10(_)
Pow10(n) == IF n = 0 THEN 1 ELSE 10 * Pow10(n - 1)

RECURSIVE DigitsValue(_, _)
DigitsValue(s, acc) ==
    IF s = <<>> THEN acc ELSE DigitsValue(Tail(s), 10 * acc + DigitVal(Head(s)))

DropPoint(s) == SelectSeq(s, LAMBDA ch : ch # ".")

PointPos(s) == CHOOSE i \in 1..Len(s) : s[i] = "."

IsDecimal(s) ==
    /\ \A i \in 1..Len(s) : s[i] \in Digits \cup {"."}
    /\ Cardinality({i \in 1..Len(s) : s[i] = "."}) <= 1
    /\ \E i \in 1..Len(s) : s[i] \in Digits

DecimalDen(s) ==
    IF \E i \in 1..Len(s) : s[i] = "." THEN Pow10(Len(s) - PointPos(s)) ELSE 1

PyFloat(txt) ==
    LET neg  == txt # <<>> /\ Head(txt) = "-"
        body == IF txt # <<>> /\ Head(txt) \in {"-", "+"} THEN Tail(txt) ELSE txt
    IN  IF body \in {<<"i", "n", "f">>,
                     <<"i", "n", "f", "i", "n", "i", "t", "y">>}
        THEN Float(IF neg THEN "-inf" ELSE "inf", 0, 1)
        ELSE IF body = <<"n", "a", "n">>
        THEN Float("nan", 0, 1)
        ELSE IF IsDecimal(body)
        THEN Float("fin",
                   (IF neg THEN -1 ELSE 1) * DigitsValue(DropPoint(body), 0),
                   DecimalDen(body))
        ELSE ValueErr

\* int(x) for a float x: truncation toward zero; int(nan) raises ValueError,
\* int(inf) raises OverflowError.
PyInt(x) ==
    CASE x.tag = "fin" ->
           [exc |-> "none",
            val |-> IF x.num >= 0 THEN x.num \div x.den
                                  ELSE -((-x.num) \div x.den)]
      [] x.tag = "nan" -> [exc |-> "ValueError", val |-> 0]
      [] x.tag \in {"inf", "-inf"} -> [exc |-> "OverflowError", val |-> 0]
      [] OTHER -> [exc |-> "ValueError", val |-> 0]

(***************************************************************************)
(* parse_line                                                              *)
(***************************************************************************)
None == [some |-> FALSE, val |-> 0]
Some(v) == [some |-> TRUE, val |-> v]
NoneF == [some |-> FALSE, val |-> Float("fin", 0, 1)]

\* One pass of the for loop of parse_line over token p; st.exc is the
\* exception that has escaped parse_line so far ("none" while it runs).
ParseToken(st, p) ==
    IF st.exc # "none" THEN st
    ELSE IF startswith(p, <<"L", ":">>)
    THEN LET f == PyFloat(From2(p))
             i == PyInt(f)
         IN  IF f.tag = "ValueError" \/ i.exc = "ValueError"
             THEN st                                  \* except ValueError: pass
             ELSE IF i.exc = "OverflowError"
             THEN [st EXCEPT !.exc = "OverflowError"] \* not caught
             ELSE [st EXCEPT !.light = Some(i.val)]
    ELSE IF startswith(p, <<"T", ":">>)
    THEN LET f == PyFloat(From2(p))
         IN  IF f.tag = "ValueError"
             THEN st                                  \* except ValueError: pass
             ELSE [st EXCEPT !.temp_c = Some(f)]
    ELSE st

\* Mutant of ParseTokens: positional parsing, the first token read as the
\* light field and the second as the temperature field.
ParseTokensPositional(st, parts) ==
    LET a == IF Len(parts) >= 1 /\ startswith(parts[1], <<"L", ":">>)
             THEN ParseToken(st, parts[1]) ELSE st
    IN  IF Len(parts) >= 2 /\ startswith(parts[2], <<"T", ":">>)
        THEN ParseToken(a, parts[2]) ELSE a

RECURSIVE ParseTokens(_, _)
ParseTokens(st, parts) ==
    IF parts = <<>> THEN st
    ELSE ParseTokens(ParseToken(st, Head(parts)), Tail(parts))

\* parse_line(line): [exc, light, temp_c]; exc # "none" means the call
\* raised exc instead of returning.
parse_line(l) ==
    ParseTokens([exc |-> "none", light |-> None, temp_c |-> NoneF], split(l))

(***************************************************************************)
(* Conversion and thresholds (main, lines 239-244)                         *)
(***************************************************************************)
\* (temp_c * 9.0 / 5.0) + 32.0
CelsiusToFahrenheit(c) ==
    IF c.tag = "fin"
    THEN Float("fin", c.num * 9 + 32 * (c.den * 5), c.den * 5)
    ELSE c

\* x < k and x >= k for a float x and an integer k; every comparison with
\* nan is false.
FloatLt(x, k) ==
    CASE x.tag = "fin" -> x.num < k * x.den
      [] x.tag = "-inf" -> TRUE
      [] OTHER -> FALSE

FloatGe(x, k) ==
    CASE x.tag = "fin" -> x.num >= k * x.den
      [] x.tag = "inf" -> TRUE
      [] OTHER -> FALSE

\* Mutant of is_dark: the boundary value counted as dark.
is_dark_inclusive(l) == l <= LIGHT_DARK_THRESHOLD

is_dark(l) == l < LIGHT_DARK_THRESHOLD
\* Mutant of is_warning: the threshold 68.0 typed as 86.0.
is_warning_transposed(temp_f) == FloatGe(temp_f, 86)

is_warning(temp_f) == FloatGe(temp_f, TEMP_WARN_THRESHOLD)
is_danger(temp_f) == FloatGe(temp_f, TEMP_DANGER_THRESHOLD)

\* Mutant of Branch: the Danger branch taken without the is_dark test.
BranchIgnoresDark(dark, warning, danger) ==
    IF danger THEN "Danger"
    ELSE IF warning THEN "Warning"
    ELSE "Safe"

\* The if / elif / else of main (lines 246-258): the branch taken.
Branch(dark, warning, danger) ==
    IF danger /\ dark THEN "Danger"
    ELSE IF warning THEN "Warning"
    ELSE "Safe"

Classify(l, c) ==
    LET temp_f == CelsiusToFahrenheit(c)
    IN  Branch(is_dark(l), is_warning(temp_f), is_danger(temp_f))

(***************************************************************************)
(* LED and buzzer helpers (lines 158-185)                                  *)
(***************************************************************************)
set_led_color(r, g, b) == [r |-> r, g |-> g, b |-> b]
buzzer_on == DUTY_ON
buzzer_off == DUTY_OFF
\* Mutant of set_safe_state: buzzer_off() forgotten, the duty cycle stays.
set_safe_state_keeps_buzzer ==
    [duty |-> duty, led |-> set_led_color(FALSE, TRUE, FALSE)]

set_safe_state == [duty |-> buzzer_off, led |-> set_led_color(FALSE, TRUE, FALSE)]
set_warning_state == [duty |-> buzzer_off, led |-> set_led_color(TRUE, TRUE, FALSE)]
set_danger_state == [duty |-> buzzer_on, led |-> set_led_color(TRUE, FALSE, FALSE)]

\* The helper main calls in each branch.
StateFor(branch) ==
    CASE branch = "Danger" -> set_danger_state
      [] branch = "Warning" -> set_warning_state
      [] OTHER -> set_safe_state

(***************************************************************************)
(* Alert cooldown (send_stove_sms_alert, lines 115-120)                    *)
(***************************************************************************)
\* Mutant of CooldownActive: the window one tick short.
CooldownActiveShort(now, last) == now - last < CooldownTicks - 1

\* now - last_alert_time < ALERT_COOLDOWN
CooldownActive(now, last) == now - last < CooldownTicks

\* Mutant of NewLastAlertTime: the assignment of line 120 lost.
LastAlertTimeKept(now, last) == last

\* last_alert_time = now, assigned before the send is tried.
NewLastAlertTime(now, last) == now

(***************************************************************************)
(* Inputs: the lines readline() may return, the time a call may take       *)
(***************************************************************************)
\* 'L:300 T:25.0\r\n': the example of the specification, as println sends it
LineDanger == <<"L", ":", "3", "0", "0", " ", "T", ":", "2", "5", ".", "0",
    "\r", "\n">>
\* 'L:800 T:25.0': hot but lit
LineHotLit == <<"L", ":", "8", "0", "0", " ", "T", ":", "2", "5", ".", "0">>
\* 'L:500 T:25.0': light exactly at the dark threshold
LineEdgeLit == <<"L", ":", "5", "0", "0", " ", "T", ":", "2", "5", ".",
    "0">>
\* 'L:499 T:20.0': 68.0 F exactly
LineWarnEdge == <<"L", ":", "4", "9", "9", " ", "T", ":", "2", "0", ".",
    "0">>
\* 'L:499 T:19.9': 67.82 F
LineSafe == <<"L", ":", "4", "9", "9", " ", "T", ":", "1", "9", ".", "9">>
\* 'L:300 T:22.2': 71.96 F
LineBelowDanger == <<"L", ":", "3", "0", "0", " ", "T", ":", "2", "2", ".",
    "2">>
\* 'L:499.9 T:22.3': light truncated to 499, 72.14 F
LineTrunc == <<"L", ":", "4", "9", "9", ".", "9", " ", "T", ":", "2", "2",
    ".", "3">>
\* 'L:-5 T:-3.5': negative values
LineNeg == <<"L", ":", "-", "5", " ", "T", ":", "-", "3", ".", "5">>
\* 'L:800 T:25.0 L:300': two light tokens
LineTwoLights == <<"L", ":", "8", "0", "0", " ", "T", ":", "2", "5", ".",
    "0", " ", "L", ":", "3", "0", "0">>
\* 'L:300 T:25.0 L:800': the same tokens in another order
LineTwoLightsRev == <<"L", ":", "3", "0", "0", " ", "T", ":", "2", "5",
    ".", "0", " ", "L", ":", "8", "0", "0">>
\* 'H:40 T:25.0 L:300': an unknown token
LineUnknownTok == <<"H", ":", "4", "0", " ", "T", ":", "2", "5", ".", "0",
    " ", "L", ":", "3", "0", "0">>
\* 'L:300 T:nan'
LineNanTemp == <<"L", ":", "3", "0", "0", " ", "T", ":", "n", "a", "n">>
\* 'L:300 T:inf'
LineInfTemp == <<"L", ":", "3", "0", "0", " ", "T", ":", "i", "n", "f">>
\* 'garbage'
LineGarbage == <<"g", "a", "r", "b", "a", "g", "e">>
\* 'L:300'
LineNoTemp == <<"L", ":", "3", "0", "0">>
\* 'T:25.0'
LineNoLight == <<"T", ":", "2", "5", ".", "0">>
\* 'L:x T:25.0'
LineBadLight == <<"L", ":", "x", " ", "T", ":", "2", "5", ".", "0">>
\* 'L:nan T:25.0'
LineNanLight == <<"L", ":", "n", "a", "n", " ", "T", ":", "2", "5", ".",
    "0">>
\* 'L:inf T:25.0': int(float('inf')) raises OverflowError
LineInfLight == <<"L", ":", "i", "n", "f", " ", "T", ":", "2", "5", ".",
    "0">>
\* '  ': whitespace only
LineBlank == <<" ", " ">>
\* '': readline() timed out
LineEmpty == <<>>

\* The lines the monitor loop is fed.
Lines == {LineDanger, LineHotLit, LineSafe, LineGarbage, LineNoTemp,
          LineInfLight, LineBlank, LineEmpty}

\* Further lines, for the parser and the classifier alone.
MoreLines == {LineWarnEdge, LineTrunc, LineEdgeLit, LineBelowDanger, LineNeg, LineTwoLights,
              LineTwoLightsRev, LineUnknownTok, LineNanTemp, LineInfTemp,
              LineNoLight, LineBadLight, LineNanLight}

\* Tokens of generated lines.
TokL300 == <<"L", ":", "3", "0", "0">>
TokL499p9 == <<"L", ":", "4", "9", "9", ".", "9">>
TokL500 == <<"L", ":", "5", "0", "0">>
TokLinf == <<"L", ":", "i", "n", "f">>
TokLx == <<"L", ":", "x">>
TokL == <<"L", ":">>
TokT25 == <<"T", ":", "2", "5", ".", "0">>
TokT20 == <<"T", ":", "2", "0", ".", "0">>
TokT19p9 == <<"T", ":", "1", "9", ".", "9">>
TokT22p3 == <<"T", ":", "2", "2", ".", "3">>
TokTnan == <<"T", ":", "n", "a", "n">>
TokTdots == <<"T", ":", "1", ".", "2", ".", "3">>
TokH40 == <<"H", ":", "4", "0">>

Tokens == {TokL300, TokL499p9, TokL500, TokLinf, TokLx, TokL, TokT25, TokT20,
           TokT19p9, TokT22p3, TokTnan, TokTdots, TokH40}

RECURSIVE JoinTokens(_)
JoinTokens(ts) ==
    IF ts = <<>> THEN <<>>
    ELSE IF Len(ts) = 1 THEN Head(ts)
    ELSE Head(ts) \o <<" ">> \o JoinTokens(Tail(ts))

\* Every line of at most MaxTokens tokens, and the named lines.
ParseLines ==
    Lines \cup MoreLines \cup
    {JoinTokens(ts) : ts \in UNION {[1..n -> Tokens] : n \in 1..MaxTokens}}

\* Clock values at which the monitor may start.
StartClocks == {0, CooldownTicks}
\* Ticks a readline() call may take (the serial timeout is 1 s, but the wall
\* clock may also be stepped while the call blocks).  With the ticks of a
\* dispatch and of the sleep, CooldownTicks - 2 puts the next cycle one tick
\* before the end of the cooldown or exactly at it.
ReadDeltas == {0, CooldownTicks - 2}
\* Ticks the Gmail dispatch may take.
SendDeltas == {0, SleepTicks}

(***************************************************************************)
(* State machine of main()                                                 *)
(***************************************************************************)
\* Positions inside the while loop: the orchestrator is Running.
Running == {"read", "parse", "classify", "alert", "send", "sleep"}

AllOff == set_led_color(FALSE, FALSE, FALSE)

\* Module-level setup (lines 24-75) has run; main() has not started.
Init ==
    /\ pc = "main"
    /\ line = <<>>
    /\ light = None
    /\ temp_c = NoneF
    /\ severity = "None"
    /\ led = AllOff
    /\ duty = DUTY_OFF
    /\ clock \in StartClocks
    /\ last_alert_time = 0
    /\ attempts = <<>>
    /\ cycles = 0
    /\ exitReason = "none"
    /\ neutralCmds = 0
    /\ serClosed = 0
    /\ readings = 0
    /\ sevCmds = 0

\* Mutant of Start: the set_safe_state() call of line 220 missing.
StartWithoutSafeState ==
    /\ pc = "main"
    /\ pc' = "read"
    /\ UNCHANGED <<line, light, temp_c, severity, led, duty, clock,
                   last_alert_time, attempts, cycles, exitReason,
                   neutralCmds, serClosed,
                   readings, sevCmds>>

\* main, lines 219-222: set_safe_state(), then the loop is entered.
Start ==
    /\ pc = "main"
    /\ duty' = set_safe_state.duty
    /\ led' = set_safe_state.led
    /\ pc' = "read"
    /\ UNCHANGED <<line, light, temp_c, severity, clock, last_alert_time,
                   attempts, cycles, exitReason, neutralCmds, serClosed,
                   readings, sevCmds>>

\* Lines 225-231 with readline() returning raw after d ticks: an empty
\* line (a timeout, or nothing but whitespace) continues the loop.
ReadLineN(raw, d, maxCycles) ==
    /\ pc = "read"
    /\ cycles < maxCycles
    /\ cycles' = cycles + 1
    /\ clock' = clock + d
    /\ line' = strip(raw)
    /\ pc' = IF line' = <<>> THEN "read" ELSE "parse"
    /\ UNCHANGED <<light, temp_c, severity, led, duty, last_alert_time,
                   attempts, exitReason, neutralCmds, serClosed,
                   readings, sevCmds>>

ReadLine(raw, d) == ReadLineN(raw, d, MaxCycles)

\* Lines 225-231 with readline() or decode raising an Exception:
\* line = "", and the loop continues.
ReadError(d) ==
    /\ pc = "read"
    /\ cycles < MaxCycles
    /\ cycles' = cycles + 1
    /\ clock' = clock + d
    /\ line' = <<>>
    /\ pc' = "read"
    /\ UNCHANGED <<light, temp_c, severity, led, duty, last_alert_time,
                   attempts, exitReason, neutralCmds, serClosed,
                   readings, sevCmds>>

\* Mutant of ParseLine: the fields start from the values of the previous
\* cycle instead of None (the initialisation of lines 196-197 lost).
ParseLineKeepsStale ==
    /\ pc = "parse"
    /\ LET r == ParseTokens([exc |-> "none", light |-> light,
                             temp_c |-> temp_c], split(line))
       IN  IF r.exc # "none"
           THEN /\ pc' = "cleanup"
                /\ exitReason' = "crash"
                /\ UNCHANGED <<light, temp_c, readings>>
           ELSE /\ light' = r.light
                /\ temp_c' = r.temp_c
                /\ pc' = IF ~r.light.some \/ ~r.temp_c.some
                         THEN "read" ELSE "classify"
                /\ readings' = IF pc' = "classify" THEN readings + 1
                                ELSE readings
                /\ UNCHANGED exitReason
    /\ UNCHANGED <<line, severity, led, duty, clock, last_alert_time,
                   attempts, cycles, neutralCmds, serClosed,
                   sevCmds>>

\* Lines 233-237: parse_line(line).  An exception raised by parse_line is
\* caught by no handler of main: the finally block runs and the process
\* ends with the exception.
ParseLine ==
    /\ pc = "parse"
    /\ LET r == parse_line(line)
       IN  IF r.exc # "none"
           THEN /\ pc' = "cleanup"
                /\ exitReason' = "crash"
                /\ UNCHANGED <<light, temp_c, readings>>
           ELSE /\ light' = r.light
                /\ temp_c' = r.temp_c
                /\ pc' = IF ~r.light.some \/ ~r.temp_c.some
                         THEN "read" ELSE "classify"
                /\ readings' = IF pc' = "classify" THEN readings + 1
                                ELSE readings
                /\ UNCHANGED exitReason
    /\ UNCHANGED <<line, severity, led, duty, clock, last_alert_time,
                   attempts, cycles, neutralCmds, serClosed,
                   sevCmds>>

\* Mutant of ClassifyAndAct: in the Danger branch the alert is sent first,
\* set_danger_state() is left for after it.
ClassifyAndActAlertFirst ==
    /\ pc = "classify"
    /\ severity' = Classify(light.val, temp_c.val)
    /\ duty' = IF severity' = "Danger" THEN duty ELSE StateFor(severity').duty
    /\ led' = IF severity' = "Danger" THEN led ELSE StateFor(severity').led
    /\ sevCmds' = IF severity' = "Danger" THEN sevCmds ELSE sevCmds + 1
    /\ pc' = IF severity' = "Danger" THEN "alert" ELSE "sleep"
    /\ UNCHANGED <<line, light, temp_c, clock, last_alert_time, attempts,
                   cycles, exitReason, neutralCmds, serClosed,
                   readings>>

\* Mutant of ClassifyAndAct: edge-triggered, the helper is called only when
\* the branch differs from the one of the previous complete reading.
ClassifyAndActEdgeTriggered ==
    /\ pc = "classify"
    /\ severity' = Classify(light.val, temp_c.val)
    /\ IF severity' = severity
       THEN UNCHANGED <<duty, led, sevCmds>>
       ELSE /\ duty' = StateFor(severity').duty
            /\ led' = StateFor(severity').led
            /\ sevCmds' = sevCmds + 1
    /\ pc' = IF severity' = "Danger" THEN "alert" ELSE "sleep"
    /\ UNCHANGED <<line, light, temp_c, clock, last_alert_time, attempts,
                   cycles, exitReason, neutralCmds, serClosed,
                   readings>>

\* Lines 239-258: convert, compare, take a branch and call its helper.
\* The Danger branch goes on to send_stove_sms_alert().
ClassifyAndAct ==
    /\ pc = "classify"
    /\ severity' = Classify(light.val, temp_c.val)
    /\ duty' = StateFor(severity').duty
    /\ led' = StateFor(severity').led
    /\ sevCmds' = sevCmds + 1
    /\ pc' = IF severity' = "Danger" THEN "alert" ELSE "sleep"
    /\ UNCHANGED <<line, light, temp_c, clock, last_alert_time, attempts,
                   cycles, exitReason, neutralCmds, serClosed,
                   readings>>

\* send_stove_sms_alert, lines 115-120: the cooldown test; when it passes,
\* last_alert_time is set and the try block is entered.
Throttle ==
    /\ pc = "alert"
    /\ LET now == clock
       IN  IF CooldownActive(now, last_alert_time)
           THEN /\ pc' = "sleep"
                /\ UNCHANGED <<last_alert_time, attempts>>
           ELSE /\ last_alert_time' = NewLastAlertTime(now, last_alert_time)
                /\ attempts' = Append(attempts, [t |-> now, result |-> "pending"])
                /\ pc' = "send"
    /\ UNCHANGED <<line, light, temp_c, severity, led, duty, clock, cycles,
                   exitReason, neutralCmds, serClosed,
                   readings, sevCmds>>

SetResult(r) == [attempts EXCEPT ![Len(attempts)].result = r]

\* Lines 122-147: the service is obtained and every recipient's message
\* is sent, in d ticks.
SendOk(d) ==
    /\ pc = "send"
    /\ clock' = clock + d
    /\ attempts' = SetResult("sent")
    /\ pc' = "sleep"
    /\ UNCHANGED <<line, light, temp_c, severity, led, duty, last_alert_time,
                   cycles, exitReason, neutralCmds, serClosed,
                   readings, sevCmds>>

\* Mutant of SendFail: the except clause clears last_alert_time so that the
\* next cycle retries.
SendFailClearsCooldown(d) ==
    /\ pc = "send"
    /\ clock' = clock + d
    /\ attempts' = SetResult("failed")
    /\ last_alert_time' = 0
    /\ pc' = "sleep"
    /\ UNCHANGED <<line, light, temp_c, severity, led, duty,
                   cycles, exitReason, neutralCmds, serClosed,
                   readings, sevCmds>>

\* Lines 122-152: get_gmail_service() or a send raises after d ticks; the
\* except clauses print the error and the function returns.
SendFail(d) ==
    /\ pc = "send"
    /\ clock' = clock + d
    /\ attempts' = SetResult("failed")
    /\ pc' = "sleep"
    /\ UNCHANGED <<line, light, temp_c, severity, led, duty, last_alert_time,
                   cycles, exitReason, neutralCmds, serClosed,
                   readings, sevCmds>>

\* Line 260: time.sleep(0.1).
Sleep ==
    /\ pc = "sleep"
    /\ clock' = clock + SleepTicks
    /\ pc' = "read"
    /\ UNCHANGED <<line, light, temp_c, severity, led, duty, last_alert_time,
                   attempts, cycles, exitReason, neutralCmds, serClosed,
                   readings, sevCmds>>

\* Mutant of KeyboardInterrupt: a bare except around the send (lines
\* 149-152) that also catches KeyboardInterrupt raised during the dispatch.
KeyboardInterruptCaughtInSend ==
    /\ pc \in Running
    /\ pc' = IF pc = "send" THEN "sleep" ELSE "cleanup"
    /\ exitReason' = "interrupt"
    /\ UNCHANGED <<line, light, temp_c, severity, led, duty, clock,
                   last_alert_time, attempts, cycles, neutralCmds, serClosed,
                   readings, sevCmds>>

\* Lines 262-263: KeyboardInterrupt raised at any point of the loop (it is
\* no Exception, so neither line 227 nor lines 149-152 catch it).
KeyboardInterrupt ==
    /\ pc \in Running
    /\ pc' = "cleanup"
    /\ exitReason' = "interrupt"
    /\ UNCHANGED <<line, light, temp_c, severity, led, duty, clock,
                   last_alert_time, attempts, cycles, neutralCmds, serClosed,
                   readings, sevCmds>>

\* Mutant of Cleanup: the finally block without ser.close() (line 269).
CleanupWithoutClose ==
    /\ pc = "cleanup"
    /\ duty' = buzzer_off
    /\ led' = AllOff
    /\ neutralCmds' = neutralCmds + 1
    /\ pc' = "done"
    /\ UNCHANGED <<line, light, temp_c, severity, clock, last_alert_time,
                   attempts, cycles, exitReason, readings, sevCmds, serClosed>>

\* Lines 265-271: the finally block.
Cleanup ==
    /\ pc = "cleanup"
    /\ duty' = buzzer_off
    /\ led' = AllOff
    /\ neutralCmds' = neutralCmds + 1
    /\ serClosed' = serClosed + 1
    /\ pc' = "done"
    /\ UNCHANGED <<line, light, temp_c, severity, clock, last_alert_time,
                   attempts, cycles, exitReason, readings, sevCmds>>

Next ==
    \/ Start
    \/ \E raw \in Lines, d \in ReadDeltas : ReadLine(raw, d)
    \/ \E d \in ReadDeltas : ReadError(d)
    \/ ParseLine
    \/ ClassifyAndAct
    \/ Throttle
    \/ \E d \in SendDeltas : SendOk(d)
    \/ \E d \in SendDeltas : SendFail(d)
    \/ Sleep
    \/ KeyboardInterrupt
    \/ Cleanup

Spec == Init /\ [][Next]_vars

(***************************************************************************)
(* One cycle of the loop over every generated line: the parser, the        *)
(* conversion and the classifier as functions of the line.                 *)
(***************************************************************************)
NextParse ==
    \/ Start
    \/ (pc = "read" /\ cycles = 0 /\ \E raw \in ParseLines : ReadLineN(raw, 0, 1))
    \/ ParseLine
    \/ ClassifyAndAct
    \/ Throttle
    \/ SendOk(0)
    \/ Sleep
    \/ Cleanup

SpecParse == Init /\ [][NextParse]_vars

(***************************************************************************)
(* A stream of Danger readings, one per cycle at 10 Hz: readline() returns *)
(* at once, the dispatch takes no time, every cycle sleeps one tick.       *)
(***************************************************************************)
StreamCycles == CooldownTicks + 2

NextStream ==
    \/ Start
    \/ ReadLineN(LineDanger, 0, StreamCycles)
    \/ ParseLine
    \/ ClassifyAndAct
    \/ Throttle
    \/ SendOk(0)
    \/ SendFail(0)
    \/ Sleep

SpecStream == Init /\ [][NextStream]_vars

(***************************************************************************)
(* The loop with its exit: a few lines, no delays, KeyboardInterrupt at    *)
(* any point of the loop.  Once the finally block is entered nothing stops *)
(* it from running to its end: weak fairness of Cleanup.                   *)
(***************************************************************************)
LiveLines == {LineDanger, LineSafe, LineGarbage, LineEmpty}

NextLive ==
    \/ Start
    \/ \E raw \in LiveLines : ReadLine(raw, 0)
    \/ ParseLine
    \/ ClassifyAndAct
    \/ Throttle
    \/ SendOk(0)
    \/ SendFail(0)
    \/ Sleep
    \/ KeyboardInterrupt
    \/ Cleanup

SpecLive == Init /\ [][NextLive]_vars /\ WF_vars(Cleanup)

(***************************************************************************)
(* Properties                                                              *)
(***************************************************************************)
TypeOK ==
    /\ pc \in Running \cup {"main", "cleanup", "done"}
    /\ severity \in {"None", "Safe", "Warning", "Danger"}
    /\ duty \in {DUTY_OFF, DUTY_ON}
    /\ led \in [r : BOOLEAN, g : BOOLEAN, b : BOOLEAN]
    /\ clock \in Nat /\ last_alert_time \in Nat
    /\ cycles \in Nat
    /\ exitReason \in {"none", "interrupt", "crash"}
    /\ readings \in Nat /\ sevCmds \in Nat

\* Reference arithmetic, independent of CelsiusToFahrenheit and FloatGe:
\* 9c/5 + 32 >= k  iff  9 num + 160 den >= 5 k den  for c = num/den, den > 0.
RefFahrenheitGe(c, k) ==
    \/ c.tag = "inf"
    \/ c.tag = "fin" /\ 9 * c.num + 160 * c.den >= 5 * k * c.den

\* The reference classifier of a complete reading (l, c).
RefSeverity(l, c) ==
    IF RefFahrenheitGe(c, 72) /\ l < 500 THEN "Danger"
    ELSE IF RefFahrenheitGe(c, 68) THEN "Warning"
    ELSE "Safe"

\* The throttle decision of the current cycle is behind the loop.
AfterBranch == pc \in {"alert", "send", "sleep"}

\* C1: any two alert attempts, whatever happened between them and whether
\* or not the earlier send succeeded, are at least ALERT_COOLDOWN apart on
\* the clock.
C1_AttemptsCooldownApart ==
    \A i, j \in 1..Len(attempts) :
        i < j => attempts[j].t - attempts[i].t >= CooldownTicks

\* Two attempts exactly one cooldown apart.
C1_Witness ==
    /\ Len(attempts) >= 2
    /\ attempts[2].t - attempts[1].t = CooldownTicks

\* C3: last_alert_time is the time of the decision to attempt, already
\* while the send is tried and also after the send has failed; after a
\* failed attempt the next attempt is a full cooldown later.
C3_FailedSendStartsCooldown ==
    /\ pc = "send" => last_alert_time = attempts[Len(attempts)].t
    /\ \A i \in 1..Len(attempts) :
          attempts[i].result = "failed" =>
              /\ i = Len(attempts) => last_alert_time = attempts[i].t
              /\ i < Len(attempts) =>
                     attempts[i + 1].t - attempts[i].t >= CooldownTicks

\* A failed attempt followed, one cooldown later, by the next attempt.
C3_Witness ==
    /\ Len(attempts) >= 2
    /\ attempts[1].result = "failed"
    /\ attempts[2].t = attempts[1].t + CooldownTicks

\* C4: the throttle and the send are reached only in a cycle whose reading
\* is complete, at or above the danger temperature and dark (light < 500).
C4_AlertOnlyInDanger ==
    pc \in {"alert", "send"} =>
        /\ line # <<>>
        /\ light.some /\ temp_c.some
        /\ light.val < 500
        /\ RefFahrenheitGe(temp_c.val, 72)

\* A send in progress in a Danger cycle.
C4_Witness ==
    /\ pc = "send"
    /\ light.val < 500
    /\ RefFahrenheitGe(temp_c.val, 72)

\* C5: for every complete reading the branch taken by the loop is the one
\* the reference classifier gives: Danger iff tempF >= 72 and light < 500,
\* else Warning iff tempF >= 68, else Safe.
C5_SeverityMatchesReference ==
    AfterBranch =>
        /\ light.some /\ temp_c.some
        /\ severity = RefSeverity(light.val, temp_c.val)

\* Light exactly 500 at a danger temperature: Warning, not Danger.
C5_Witness ==
    /\ pc = "sleep"
    /\ light.val = 500
    /\ RefFahrenheitGe(temp_c.val, 72)
    /\ severity = "Warning"

\* C6: after set_safe_state, set_warning_state or set_danger_state the LED
\* pins and the buzzer hold the command of the table: Safe (Green, off),
\* Warning (Yellow, off), Danger (Red, on).
C6_ActuatorTable ==
    /\ (pc = "read" /\ cycles = 0) =>
          led = [r |-> FALSE, g |-> TRUE, b |-> FALSE] /\ duty = 0
    /\ AfterBranch =>
          /\ severity = "Safe" =>
                led = [r |-> FALSE, g |-> TRUE, b |-> FALSE] /\ duty = 0
          /\ severity = "Warning" =>
                led = [r |-> TRUE, g |-> TRUE, b |-> FALSE] /\ duty = 0
          /\ severity = "Danger" =>
                led = [r |-> TRUE, g |-> FALSE, b |-> FALSE] /\ duty > 0

\* A Safe cycle after a Danger cycle that sounded the buzzer.
C6_Witness ==
    /\ pc = "sleep"
    /\ severity = "Safe"
    /\ Len(attempts) >= 1

\* C7: once a KeyboardInterrupt has been received in the loop, whatever the
\* step it interrupted, the loop is left, and the finally block runs once:
\* one all-off actuator command and one ser.close().
C7_CleanupExactlyOnce ==
    exitReason = "interrupt" =>
        /\ pc \in {"cleanup", "done"}
        /\ pc = "cleanup" => neutralCmds = 0 /\ serClosed = 0
        /\ pc = "done" =>
              /\ neutralCmds = 1 /\ serClosed = 1
              /\ led = [r |-> FALSE, g |-> FALSE, b |-> FALSE] /\ duty = 0

\* Cleanup done after an interrupt that hit an alert dispatch in progress.
C7_Witness ==
    /\ pc = "done"
    /\ exitReason = "interrupt"
    /\ Len(attempts) >= 1
    /\ attempts[Len(attempts)].result = "pending"
    /\ neutralCmds = 1 /\ serClosed = 1

\* Reference reading of a line: it carries a light value when one of its
\* tokens is "L:" followed by the text of a finite number (which has an
\* integer part), a temperature when one is "T:" followed by the text of
\* any float.
RefHasLight(l) ==
    \E i \in 1..Len(split(l)) :
        /\ startswith(split(l)[i], <<"L", ":">>)
        /\ PyFloat(From2(split(l)[i])).tag = "fin"

RefHasTemp(l) ==
    \E i \in 1..Len(split(l)) :
        /\ startswith(split(l)[i], <<"T", ":">>)
        /\ PyFloat(From2(split(l)[i])).tag # "ValueError"

\* The throttle of cycle k has decided (in the stream no cycle is skipped).
C2_Decided(k) ==
    cycles > k \/ (cycles = k /\ pc \in {"send", "sleep", "read"})

\* C2: in a stream of Danger readings at 10 Hz from startup the first
\* cycle makes the one attempt of the first ALERT_COOLDOWN seconds, and
\* the first cycle a full cooldown after it (cycle CooldownTicks + 1)
\* makes exactly one more.
C2_StreamOneAlertPerCooldown ==
    /\ C2_Decided(1) => Len(attempts) >= 1
    /\ ~C2_Decided(CooldownTicks + 1) => Len(attempts) <= 1
    /\ C2_Decided(CooldownTicks + 1) => Len(attempts) = 2

\* C8: parse_line raises no exception, whatever the line: it returns a
\* pair in which a field whose text cannot be converted is absent.
C8_ParseLineNeverRaises ==
    LET r == parse_line(line)
    IN  /\ r.exc = "none"
        /\ ~RefHasLight(line) => ~r.light.some
        /\ ~RefHasTemp(line) => ~r.temp_c.some

\* C9: the loop is left only on the interrupt signal; no read error, no
\* malformed line and no failed dispatch ends it.
C9_LeavesRunningOnlyOnInterrupt ==
    pc \in {"cleanup", "done"} => exitReason = "interrupt"

\* The step goes back to reading and changes nothing the monitor shows.
C10_Skipped ==
    /\ pc' = "read"
    /\ UNCHANGED <<severity, led, duty, last_alert_time, attempts>>

\* C10: a cycle whose line is empty or lacks a light or a temperature
\* value is skipped: unless interrupted, the loop goes back to reading
\* with the severity, the actuators, the attempts and last_alert_time
\* unchanged.
C10_SkippedCycleNoEffect ==
    [][/\ (pc = "read" /\ cycles' # cycles /\ line' = <<>>) => C10_Skipped
       /\ (pc = "parse" /\ (~RefHasLight(line) \/ ~RefHasTemp(line))
             /\ exitReason' # "interrupt") => C10_Skipped]_vars

\* C11: actuator commands never wait for the alert delivery: while a
\* dispatch is in progress the loop can still read the next line (and so
\* issue the command for it).
C11_ReadNotBlockedBySend ==
    (pc = "send" /\ cycles < MaxCycles) =>
        ENABLED (\E raw \in Lines, d \in ReadDeltas : ReadLine(raw, d))

\* C13: the first Danger cycle after startup authorizes an attempt,
\* whatever the clock shows: once a Danger cycle has passed the throttle,
\* an attempt has been made.
C13_FirstDangerCycleAlerts ==
    (pc = "sleep" /\ severity = "Danger") => Len(attempts) >= 1

\* C15: a reading at or above the danger threshold is at or above the
\* warning threshold, so every Danger cycle is a cycle with is_warning.
C15_DangerImpliesWarning ==
    AfterBranch =>
        LET temp_f == CelsiusToFahrenheit(temp_c.val)
        IN  /\ is_danger(temp_f) => is_warning(temp_f)
            /\ severity = "Danger" => is_warning(temp_f)

\* A Danger cycle at the throttle.
C15_Witness ==
    /\ pc = "alert"
    /\ severity = "Danger"
    /\ is_warning(CelsiusToFahrenheit(temp_c.val))

\* The severity of a line, as a function of the line alone.
SeverityOfLine(l) ==
    LET r == parse_line(l)
    IN  IF r.exc = "none" /\ r.light.some /\ r.temp_c.some
        THEN Classify(r.light.val, r.temp_c.val)
        ELSE "None"

\* C16: the severity computed for a line and the actuator command issued
\* for it are a function of the line alone, whatever the earlier
\* readings, the actuator state, last_alert_time and the clock were.
C16_SeverityFunctionOfLine ==
    AfterBranch =>
        /\ severity = SeverityOfLine(line)
        /\ severity # "None"
        /\ led = StateFor(SeverityOfLine(line)).led
        /\ duty = StateFor(SeverityOfLine(line)).duty

\* A Warning cycle in a run that made an alert attempt in an earlier cycle.
C16_Witness ==
    /\ pc = "sleep"
    /\ severity = "Warning"
    /\ Len(attempts) >= 1
    /\ last_alert_time > 0

\* C17: last_alert_time changes only in the step that decides to attempt
\* an alert, where it becomes the current clock value; suppressed Danger
\* cycles, Warning, Safe and skipped cycles, the send and the shutdown
\* leave it alone, and it never decreases.
C17_LastAlertTimeFrame ==
    [][last_alert_time' # last_alert_time =>
          /\ pc = "alert" /\ pc' = "send"
          /\ Len(attempts') = Len(attempts) + 1
          /\ last_alert_time' = clock
          /\ last_alert_time' > last_alert_time]_vars

\* A Danger cycle suppressed by the cooldown, later than the cycle of the
\* one attempt, with last_alert_time still the time of that attempt.
C17_Witness ==
    /\ pc = "sleep"
    /\ severity = "Danger"
    /\ Len(attempts) = 1
    /\ attempts[1].result = "failed"
    /\ last_alert_time = attempts[1].t
    /\ clock - last_alert_time >= 2 * SleepTicks

\* The command of the table for a severity; before any complete reading
\* the Safe command of startup.
RefCommand(sev) ==
    CASE sev = "Danger" ->
           [led |-> [r |-> TRUE, g |-> FALSE, b |-> FALSE], tone |-> TRUE]
      [] sev = "Warning" ->
           [led |-> [r |-> TRUE, g |-> TRUE, b |-> FALSE], tone |-> FALSE]
      [] OTHER ->
           [led |-> [r |-> FALSE, g |-> TRUE, b |-> FALSE], tone |-> FALSE]

\* C19: while the loop runs, at the end of every cycle (before the next
\* read) the actuators show the command of the latest complete reading,
\* or the Safe command when there has been none; the tone is on only
\* when that reading was Danger.
C19_OutputFollowsLatestReading ==
    pc = "read" =>
        /\ led = RefCommand(severity).led
        /\ (duty > 0) = RefCommand(severity).tone
        /\ duty > 0 => severity = "Danger"

\* An empty read after a Danger cycle: the buzzer still sounds.
C19_Witness ==
    /\ pc = "read"
    /\ cycles >= 2
    /\ line = <<>>
    /\ severity = "Danger"
    /\ duty > 0

\* C20: in a Danger cycle the (Red, on) command is issued before the
\* throttle is consulted: when the cooldown test is made and while a
\* dispatch is in progress the actuators already show the Danger command.
C20_DangerCommandBeforeAlert ==
    pc \in {"alert", "send"} =>
        /\ led = [r |-> TRUE, g |-> FALSE, b |-> FALSE]
        /\ duty > 0

\* A dispatch in progress in a cycle that followed a Safe cycle.
C20_Witness ==
    /\ pc = "send"
    /\ cycles >= 2
    /\ led = [r |-> TRUE, g |-> FALSE, b |-> FALSE]
    /\ duty > 0

\* The permutations of 1..n, and the tokens ts taken in the order f.
Perms(n) ==
    {f \in [1..n -> 1..n] : \A i, j \in 1..n : i # j => f[i] # f[j]}

Permuted(ts, f) == [i \in 1..Len(ts) |-> ts[f[i]]]

\* What a caller of parse_line observes for a line of tokens ts (split
\* gives back the tokens a line was joined from): the pair returned, or
\* the exception raised.
Outcome(ts) ==
    LET r == ParseTokens([exc |-> "none", light |-> None, temp_c |-> NoneF], ts)
    IN  IF r.exc = "none" THEN r
        ELSE [exc |-> r.exc, light |-> None, temp_c |-> NoneF]

\* Every order of the tokens of the current line gives the same outcome.
OrderIrrelevant ==
    LET ts == split(line)
        o  == Outcome(ts)
    IN  /\ split(JoinTokens(ts)) = ts
        /\ \A f \in Perms(Len(ts)) : Outcome(Permuted(ts, f)) = o

\* Tokens whose text parse_line converts and assigns to a field.
ConvertsLight(p) ==
    startswith(p, <<"L", ":">>) /\ PyFloat(From2(p)).tag = "fin"

ConvertsTemp(p) ==
    startswith(p, <<"T", ":">>) /\ PyFloat(From2(p)).tag # "ValueError"

AtMostOneOfEach(ts) ==
    /\ Cardinality({i \in 1..Len(ts) : ConvertsLight(ts[i])}) <= 1
    /\ Cardinality({i \in 1..Len(ts) : ConvertsTemp(ts[i])}) <= 1

\* C18 as claimed: for every line, also with several L: or T: tokens,
\* parse_line gives the same result for every order of its tokens.
C18_AnyLineOrderIrrelevant ==
    pc \in {"parse", "classify"} => OrderIrrelevant

\* C18 (amended): for every line in which at most one L: token and at most
\* one T: token convert, whatever its unknown and unconvertible tokens,
\* parse_line gives the same result for every order of its tokens.
C18_OrderIrrelevantWithoutRepeats ==
    (pc \in {"parse", "classify"} /\ AtMostOneOfEach(split(line))) =>
        OrderIrrelevant

\* 'H:40 T:25.0 L:300' parsed: three tokens, one of them unknown.
C18_Witness ==
    /\ pc = "classify"
    /\ line = LineUnknownTok
    /\ light = Some(300)
    /\ temp_c.some

\* C14: every complete reading gets exactly one set_*_state() call, also
\* when the branch is the one of the previous cycle: the number of calls
\* equals the number of complete readings, except while the one reading of
\* the current cycle is still in hand (between parse_line and the branch,
\* or when KeyboardInterrupt ended the loop at that point).
C14_OneCommandPerReading ==
    /\ pc \in (Running \cup {"main"}) \ {"classify"} => sevCmds = readings
    /\ pc = "classify" => readings = sevCmds + 1
    /\ pc \in {"cleanup", "done"} =>
           \/ sevCmds = readings
           \/ exitReason = "interrupt" /\ readings = sevCmds + 1

\* Two cycles in a row in the Danger branch, each with its command: the
\* only attempt is at least two ticks old, so it was made in the first
\* cycle, and the second cycle is past its branch.
C14_Witness ==
    /\ pc = "sleep"
    /\ cycles = 2 /\ readings = 2 /\ sevCmds = 2
    /\ severity = "Danger"
    /\ Len(attempts) = 1
    /\ clock - attempts[1].t >= 2

\* C12: once a KeyboardInterrupt has been received in the loop, no further
\* readline(), set_*_state() call of the loop body or alert attempt is made
\* (so the exit waits for no more than the read or the dispatch it
\* interrupted), and the finally block eventually completes: actuators all
\* off, buzzer duty 0, the serial port closed, the process at its end.
C12_InterruptLeadsToCleanExit ==
    /\ [][exitReason = "interrupt" =>
              /\ cycles' = cycles
              /\ sevCmds' = sevCmds
              /\ attempts' = attempts
              /\ pc' \in {"cleanup", "done"}]_vars
    /\ (exitReason = "interrupt") ~>
           (/\ pc = "done"
            /\ led = AllOff /\ duty = DUTY_OFF
            /\ neutralCmds = 1 /\ serClosed = 1)

\* An interrupt while the Danger outputs were on and the alert had gone
\* out: the finally block has switched everything off and closed the port.
C12_Witness ==
    /\ pc = "done"
    /\ exitReason = "interrupt"
    /\ severity = "Danger"
    /\ Len(attempts) = 1 /\ attempts[1].result = "sent"
    /\ led = AllOff /\ duty = DUTY_OFF
    /\ serClosed = 1

====
